---- MODULE Spec2Model ----
(***************************************************************************)
(* Model of the protocol core of ebb-control (class EiBotBoard, ebb.js):   *)
(* the command queue `pending`, the response router `responseHandlers`,    *)
(* the per-command response promise with its timer, and the promise chain  *)
(* print -> responsePromise -> continuation built by command().            *)
(*                                                                         *)
(* Every command() call gets the next identifier 1, 2, 3, ... so that      *)
(* identifiers are ordered as the calls were.  A promise reaction (a       *)
(* .then callback) is one action: it runs as a microtask of its own.       *)
(*                                                                         *)
(* The operations of the class are modelled by what they do once their     *)
(* command has been answered (Decoder): Spec is the protocol core, OpSpec   *)
(* adds the operations resuming after their command, and DecSpec runs the  *)
(* decoders alone on responses drawn from ProbeLines.  EncSpec runs the    *)
(* operations up to their call of command() on arguments drawn from Calls, *)
(* and BootSpec is the protocol core with enterBootloader and reboot.      *)
(***************************************************************************)
EXTENDS Integers, Sequences, FiniteSets, TLC

\* Number of command() calls in one run.
MaxCmds == 3

\* Number of API calls rejected by parameter validation in one run.
MaxThrown == 1

CmdIds == 1..MaxCmds

\* Inputs tried for memoryWrite(address, value): the values of the test
\* 'Memory write' (in range, below and above the range).
AddressInputs == {-1, 1337, 4096}
ByteInputs == {-1, 123, 256}

VARIABLES
  connected,         \* SerialPort.connected of the transport
  pending,           \* this.pending: queue of executeCommand closures (by command)
  responseHandlers,  \* this.responseHandlers: queue of line handlers
  issued,            \* number of command() calls made so far
  cmd,               \* cmd[c]: the command string of call c
  numResponseLines,  \* numResponseLines[c]
  timedOut,          \* timedOut[c]: the flag of c's responsePromise executor
  timeoutId,         \* timeoutId[c]: TRUE while c's timer is scheduled
  lines,             \* lines[c]: the lines collected for c
  responsePromise,   \* responsePromise[c]: "pending", "fulfilled" or "rejected"
  chain,             \* chain[c]: position of c's executeCommand promise chain
  outcome,           \* outcome[c]: the promise command() returned to its caller
  unhandled,         \* unhandled[c]: reason the chain of c was rejected with ("" if none)
  printed,           \* commands passed to port.print, in call order
  printLog,          \* the strings passed to port.print, in call order
  writes,            \* commands whose print reached the device (port connected)
  lineLog,           \* every 'line' notification so far and what became of it
  registered,        \* every handler ever pushed on responseHandlers, in order
  listenerThrew,     \* TRUE once the 'line' listener has thrown an exception
  thrown,            \* number of API calls that threw a validation error
  opResult,          \* opResult[c]: the promise of the operation that issued c
  probe,             \* one operation resumed with one response (decoder runs)
  disconnects,       \* commands whose operation has called port.disconnect()
  rebootAnswers      \* whether the board sends a line in reply to RB

\* The state of the protocol core: what command() and the listener work on.
proto == <<pending, responseHandlers, issued, cmd, numResponseLines, timedOut,
           timeoutId, lines, responsePromise, chain, outcome, unhandled,
           printed, printLog, writes, registered>>

vars == <<connected, pending, responseHandlers, issued, cmd, numResponseLines,
          timedOut, timeoutId, lines, responsePromise, chain, outcome,
          unhandled, printed, printLog, writes, lineLog, registered,
          listenerThrew, thrown,
          opResult, probe, disconnects, rebootAnswers>>

\* What the code of the operations after `await this.command(...)` works on,
\* and the board's choice of answering RB.
decoding == <<opResult, probe, disconnects, rebootAnswers>>

----------------------------------------------------------------------------
\* Variant: the lines are joined by a bare line feed.
RECURSIVE JoinLf(_)
JoinLf(ls) ==
  IF ls = <<>> THEN ""
  ELSE IF Len(ls) = 1 THEN ls[1].text
  ELSE ls[1].text \o "\n" \o JoinLf(Tail(ls))

\* lines.join('\r\n') over the texts of the collected lines.
RECURSIVE Join(_)
Join(ls) ==
  IF ls = <<>> THEN ""
  ELSE IF Len(ls) = 1 THEN ls[1].text
  ELSE ls[1].text \o "\r\n" \o Join(Tail(ls))

\* Variant: the registration loop runs once too often (i <= numResponseLines).
HandlersOneTooMany(c, n, base) ==
  [i \in 1..(n + 1) |-> [cmd |-> c, id |-> base + i]]

\* The n handler closures command c pushes, one per expected line.  Each
\* closure is an object of its own: id is its rank among all handlers ever
\* pushed (base were pushed before).
Handlers(c, n, base) == [i \in 1..n |-> [cmd |-> c, id |-> base + i]]

\* The reply the device gives to a command string, as the tests emit it.
DeviceReply(s) ==
  CASE s = "CS" -> <<"OK">>
    [] s = "QB" -> <<"1", "OK">>
    [] s = "V"  -> <<"EBBv13", "OK">>
    [] s = "RB" -> IF rebootAnswers THEN <<"OK">> ELSE <<>>
    [] OTHER    -> <<"OK">>

\* The lines the device sends for the commands written so far, in write order.
RECURSIVE DeviceStream(_)
DeviceStream(ws) ==
  IF ws = <<>> THEN <<>>
  ELSE LET c == Head(ws)
           r == DeviceReply(cmd[c])
       IN [k \in 1..Len(r) |-> [cmd |-> c, idx |-> k, text |-> r[k]]]
            \o DeviceStream(Tail(ws))

----------------------------------------------------------------------------
\* The state new EiBotBoard() leaves the object and its transport in.
Constructed ==
  /\ connected = FALSE
  /\ pending = <<>>
  /\ responseHandlers = <<>>
  /\ issued = 0
  /\ cmd = [c \in CmdIds |-> ""]
  /\ numResponseLines = [c \in CmdIds |-> 0]
  /\ timedOut = [c \in CmdIds |-> FALSE]
  /\ timeoutId = [c \in CmdIds |-> FALSE]
  /\ lines = [c \in CmdIds |-> <<>>]
  /\ responsePromise = [c \in CmdIds |-> "none"]
  /\ chain = [c \in CmdIds |-> "none"]
  /\ outcome = [c \in CmdIds |-> [state |-> "none", value |-> ""]]
  /\ unhandled = [c \in CmdIds |-> ""]
  /\ printed = <<>>
  /\ printLog = <<>>
  /\ writes = <<>>
  /\ lineLog = <<>>
  /\ registered = <<>>
  /\ listenerThrew = FALSE
  /\ thrown = 0
  /\ disconnects = <<>>

\* No operation has been resumed.
NoProbe == [op |-> "none"]

Init ==
  /\ Constructed
  /\ opResult = [c \in CmdIds |-> [state |-> "none"]]
  /\ probe = NoProbe
  /\ rebootAnswers = TRUE

----------------------------------------------------------------------------
\* port.connect(): the transport is connected from then on.
Connect ==
  /\ ~connected
  /\ connected' = TRUE
  /\ UNCHANGED <<proto, lineLog, listenerThrew, thrown, decoding>>

\* port.disconnect(): the transport is no longer connected.
Disconnect ==
  /\ connected
  /\ connected' = FALSE
  /\ UNCHANGED <<proto, lineLog, listenerThrew, thrown, decoding>>

\* The state print(str) leaves its promise in: it throws unless connected.
PrintResult == IF connected THEN "printResolved" ELSE "printRejected"

\* Variant: the command string is printed without the carriage return.
PrintArgumentBare(s) == s

\* The argument of print: `${cmd}\r`
PrintArgument(s) == s \o "\r"

\* Variant: the call never waits for the commands already pending.
OthersPendingNever == FALSE

\* const othersPending = this.pending.length > 0
OthersPending == Len(pending) > 0

\* command(cmd, numResponseLines): the whole synchronous call.  The timer is
\* started and the handlers are pushed in the executor of responsePromise;
\* executeCommand runs at once only when nothing else is pending.
CommandCall(s, n) ==
  /\ issued < MaxCmds
  /\ LET c == issued + 1
         run == ~OthersPending
     IN /\ issued' = c
        /\ cmd' = [cmd EXCEPT ![c] = s]
        /\ numResponseLines' = [numResponseLines EXCEPT ![c] = n]
        /\ timeoutId' = [timeoutId EXCEPT ![c] = TRUE]
        /\ responsePromise' = [responsePromise EXCEPT ![c] = "pending"]
        /\ responseHandlers' = responseHandlers \o Handlers(c, n, Len(registered))
        /\ registered' = registered \o Handlers(c, n, Len(registered))
        /\ outcome' = [outcome EXCEPT ![c] = [state |-> "pending", value |-> ""]]
        /\ pending' = Append(pending, c)
        /\ chain' = [chain EXCEPT ![c] = IF run THEN PrintResult ELSE "queued"]
        /\ printed' = IF run THEN Append(printed, c) ELSE printed
        /\ printLog' = IF run THEN Append(printLog, PrintArgument(s)) ELSE printLog
        /\ writes' = IF run /\ connected THEN Append(writes, c) ELSE writes
        /\ UNCHANGED <<connected, timedOut, lines, unhandled, lineLog,
                       listenerThrew, decoding>>

\* command() called by an operation whose parameters passed validation.
Command(s, n) == CommandCall(s, n) /\ UNCHANGED thrown

\* Variant: the continuation does not execute the next pending command.
ChainAfterPrintSkipped(ch, q) == ch

\* executeCommand of the command at the head of queue q, if there is one:
\* port.print is called, so the chain waits for print's promise.
ChainAfterPrint(ch, q) ==
  IF Len(q) > 0 THEN [ch EXCEPT ![q[1]] = PrintResult] ELSE ch

\* Variant: the continuation removes the newest entry (pop) instead of the
\* oldest.
PopPending(q) == SubSeq(q, 1, Len(q) - 1)

\* this.pending.shift()
ShiftPending(q) == Tail(q)

\* .then(() => responsePromise): print succeeded, the chain now waits for
\* the response promise.
PrintFulfilled(c) ==
  /\ chain[c] = "printResolved"
  /\ chain' = [chain EXCEPT ![c] = "awaitResponse"]
  /\ UNCHANGED <<connected, pending, responseHandlers, issued, cmd,
                 numResponseLines, timedOut, timeoutId, lines, responsePromise,
                 outcome, unhandled, printed, printLog, writes, lineLog, registered,
                 listenerThrew, thrown, decoding>>

\* print rejected: neither .then has a rejection handler, so the chain
\* ends rejected with print's error and nothing else runs.
PrintRejected(c) ==
  /\ chain[c] = "printRejected"
  /\ chain' = [chain EXCEPT ![c] = "rejected"]
  /\ unhandled' = [unhandled EXCEPT ![c] = "Not connected"]
  /\ UNCHANGED <<connected, pending, responseHandlers, issued, cmd,
                 numResponseLines, timedOut, timeoutId, lines, responsePromise,
                 outcome, printed, printLog, writes, lineLog, registered,
                 listenerThrew, thrown, decoding>>

\* .then((response) => {...}): the response promise is fulfilled; the caller's
\* promise is fulfilled, the head of pending is removed and the next pending
\* command, if any, is executed.
Continuation(c) ==
  /\ chain[c] = "awaitResponse"
  /\ responsePromise[c] = "fulfilled"
  /\ LET rest == ShiftPending(pending)
         run == Len(rest) > 0
     IN /\ outcome' = [outcome EXCEPT ![c] =
                         [state |-> "fulfilled", value |-> Join(lines[c])]]
        /\ pending' = rest
        /\ chain' = ChainAfterPrint([chain EXCEPT ![c] = "done"], rest)
        /\ printed' = IF run THEN Append(printed, rest[1]) ELSE printed
        /\ printLog' = IF run THEN Append(printLog, PrintArgument(cmd[rest[1]]))
                              ELSE printLog
        /\ writes' = IF run /\ connected THEN Append(writes, rest[1]) ELSE writes
  /\ UNCHANGED <<connected, responseHandlers, issued, cmd, numResponseLines,
                 timedOut, timeoutId, lines, responsePromise, unhandled,
                 lineLog, registered, listenerThrew, thrown, decoding>>

\* The response promise is rejected (timeout): the second .then has no
\* rejection handler, so the chain ends rejected and nothing else runs.
ResponseRejected(c) ==
  /\ chain[c] = "awaitResponse"
  /\ responsePromise[c] = "rejected"
  /\ chain' = [chain EXCEPT ![c] = "rejected"]
  /\ unhandled' = [unhandled EXCEPT ![c] = "timed out"]
  /\ UNCHANGED <<connected, pending, responseHandlers, issued, cmd,
                 numResponseLines, timedOut, timeoutId, lines, responsePromise,
                 outcome, printed, printLog, writes, lineLog, registered,
                 listenerThrew, thrown, decoding>>

\* The setTimeout callback of command c.
Timeout(c) ==
  /\ timeoutId[c]
  /\ timedOut' = [timedOut EXCEPT ![c] = TRUE]
  /\ timeoutId' = [timeoutId EXCEPT ![c] = FALSE]
  /\ responsePromise' = [responsePromise EXCEPT ![c] =
                           IF @ = "pending" THEN "rejected" ELSE @]
  /\ UNCHANGED <<connected, pending, responseHandlers, issued, cmd,
                 numResponseLines, lines, chain, outcome, unhandled, printed, printLog,
                 writes, lineLog, registered, listenerThrew, thrown, decoding>>

----------------------------------------------------------------------------
\* Variant: the handler does not test the flag.
HandlerIgnoresNever(c) == FALSE

\* if (timedOut) return;
HandlerIgnores(c) == timedOut[c]

\* Variant: the listener calls the newest handler instead of the oldest.
NewestHandler(q) == q[Len(q)]

\* The handler the listener takes: this.responseHandlers.shift()
OldestHandler(q) == Head(q)

\* Variant: without the length check the listener calls the undefined result
\* of shift() on the empty queue, which throws a TypeError.
UnexpectedLineThrows(line) ==
  /\ lineLog' = Append(lineLog, [line |-> line, handler |-> 0, appendedTo |-> 0,
                                 late |-> timedOut[line.cmd]])
  /\ listenerThrew' = TRUE
  /\ UNCHANGED proto

\* A line with no handler pending: it is logged, nothing else happens.
UnexpectedLine(line) ==
  /\ lineLog' = Append(lineLog, [line |-> line, handler |-> 0, appendedTo |-> 0,
                                 late |-> timedOut[line.cmd]])
  /\ UNCHANGED <<proto, listenerThrew>>

\* The 'line' listener of the constructor together with the handler closure
\* it calls.
LineListener(line) ==
  IF Len(responseHandlers) = 0
  THEN UnexpectedLine(line)
  ELSE LET h == OldestHandler(responseHandlers)
           c == h.cmd
           take == ~HandlerIgnores(c)
           ls == IF take THEN Append(lines[c], line) ELSE lines[c]
           full == take /\ Len(ls) = numResponseLines[c]
       IN /\ responseHandlers' = Tail(responseHandlers)
          /\ lines' = [lines EXCEPT ![c] = ls]
          /\ timeoutId' = [timeoutId EXCEPT ![c] = IF full THEN FALSE ELSE @]
          /\ responsePromise' = [responsePromise EXCEPT ![c] =
                                   IF full /\ @ = "pending" THEN "fulfilled" ELSE @]
          /\ lineLog' = Append(lineLog,
                               [line |-> line, handler |-> h.id,
                                appendedTo |-> IF take THEN c ELSE 0,
                                late |-> timedOut[line.cmd]])
          /\ UNCHANGED <<pending, issued, cmd, numResponseLines, timedOut, chain,
                         outcome, unhandled, printed, printLog, writes, registered,
                         listenerThrew>>

\* The transport emits the next line of the device's output.
DeviceEmit ==
  /\ Len(lineLog) < Len(DeviceStream(writes))
  /\ LineListener(DeviceStream(writes)[Len(lineLog) + 1])
  /\ UNCHANGED <<connected, thrown, decoding>>

----------------------------------------------------------------------------
\* An API operation throws before it calls command().
Throw ==
  /\ thrown < MaxThrown
  /\ thrown' = thrown + 1
  /\ UNCHANGED <<connected, proto, lineLog, listenerThrew, decoding>>

\* assertByte(value) throws.  Every input here is an integer.
AssertByteThrows(value) == value < 0 \/ value > 255

\* if (address < 0 || address > 4095) throw
AddressThrows(address) == address < 0 \/ address > 4095

ClearStepPosition == Command("CS", 1)

QueryButton == Command("QB", 2)

QueryVersion == Command("V", 1)

\* Variant: the byte value is checked only after command() has been called.
MemoryWriteValidatesLate(address, value) ==
  IF AddressThrows(address)
  THEN Throw
  ELSE IF AssertByteThrows(value)
  THEN /\ thrown < MaxThrown
       /\ thrown' = thrown + 1
       /\ CommandCall("MW," \o ToString(address) \o "," \o ToString(value), 1)
  ELSE Command("MW," \o ToString(address) \o "," \o ToString(value), 1)

MemoryWrite(address, value) ==
  IF AddressThrows(address) \/ AssertByteThrows(value)
  THEN Throw
  ELSE Command("MW," \o ToString(address) \o "," \o ToString(value), 1)

----------------------------------------------------------------------------
(***************************************************************************)
(* The operations: what each does with the response text once              *)
(* `await this.command(...)` resumes.  A JavaScript string is a sequence   *)
(* of one-character strings here, so that indexOf, split and parseInt are  *)
(* computed character by character.                                        *)
(***************************************************************************)
PEN_DOWN == 0
PEN_UP == 1
MOTOR_DISABLE == 0
MOTOR_STEP_DIV16 == 1
MOTOR_STEP_DIV8 == 2
MOTOR_STEP_DIV4 == 3
MOTOR_STEP_DIV2 == 4
MOTOR_STEP_DIV1 == 5
SERVO_POWER_ON == 1

\* The string literals 'OK', '\r\n' and ','.
OK == <<"O", "K">>
CRLF == <<"\r", "\n">>
COMMA == <<",">>

\* The value of an array element that does not exist, where a string is
\* expected.
Undefined == <<"undefined">>

\* NaN, and the number n.
NaN == [nan |-> TRUE]
Num(n) == [n |-> n]

\* s.indexOf(p): the first position (from 0) where p occurs in s, or -1.
IndexOf(s, p) ==
  LET hits == {i \in 0..(Len(s) - Len(p)) : SubSeq(s, i + 1, i + Len(p)) = p}
  IN IF hits = {} THEN -1
     ELSE CHOOSE i \in hits : \A j \in hits : i <= j

\* s.split(sep): the pieces of s between the occurrences of sep.
RECURSIVE Split(_, _)
Split(s, sep) ==
  LET i == IndexOf(s, sep)
  IN IF i = -1 THEN <<s>>
     ELSE <<SubSeq(s, 1, i)>> \o Split(SubSeq(s, i + Len(sep) + 1, Len(s)), sep)

\* const [.., x, ..] = arr: the k-th element (from 1), undefined if missing.
At(arr, k) == IF k <= Len(arr) THEN arr[k] ELSE Undefined

\* lines.join('\r\n') on character sequences.
RECURSIVE ResponseText(_)
ResponseText(ls) ==
  IF ls = <<>> THEN <<>>
  ELSE IF Len(ls) = 1 THEN ls[1]
  ELSE ls[1] \o CRLF \o ResponseText(Tail(ls))

Digits == <<"0", "1", "2", "3", "4", "5", "6", "7", "8", "9">>

IsDigit(ch) == \E d \in 1..10 : Digits[d] = ch

DigitValue(ch) == (CHOOSE d \in 1..10 : Digits[d] = ch) - 1

\* Characters parseInt skips at the start of its argument.
WhiteSpace == {" ", "\t", "\n", "\r"}

RECURSIVE TrimStart(_)
TrimStart(s) ==
  IF s # <<>> /\ Head(s) \in WhiteSpace THEN TrimStart(Tail(s)) ELSE s

\* The value of the leading decimal digits of s, continuing from acc.
RECURSIVE DigitsValue(_, _)
DigitsValue(s, acc) ==
  IF s = <<>> \/ ~IsDigit(Head(s)) THEN acc
  ELSE DigitsValue(Tail(s), 10 * acc + DigitValue(Head(s)))

\* parseInt(s, 10): optional white space, optional sign, then the longest
\* run of decimal digits; NaN if there is no digit.  parseInt(undefined, 10)
\* parses the string 'undefined'.
ParseInt(s) ==
  IF s = Undefined THEN NaN
  ELSE LET t == TrimStart(s)
           signed == t # <<>> /\ Head(t) \in {"+", "-"}
           u == IF signed THEN Tail(t) ELSE t
       IN IF u = <<>> \/ ~IsDigit(Head(u)) THEN NaN
          ELSE IF signed /\ Head(t) = "-" THEN Num(0 - DigitsValue(u, 0))
          ELSE Num(DigitsValue(u, 0))

\* The promise of an async operation: fulfilled with its return value, or
\* rejected with new Error(`${text}${response}`).
Fulfilled(v) == [state |-> "fulfilled", value |-> v]
Rejected(text, response) ==
  [state |-> "rejected", text |-> text, response |-> response]

\* throw new Error(`Unexpected response: ${response}`)
Unexpected(response) == Rejected("Unexpected response: ", response)

\* Operations that end with
\*   if (response !== 'OK') throw new Error(`Received unexpected response: ...`)
ReceivedUnexpectedOps ==
  {"analogConfigure", "configurePinDirections", "clearStepPosition",
   "enableMotors", "absoluteMove", "lowLevelMove", "lowLevelMoveTimeLimited",
   "memoryWrite", "nodeCountDecrement", "nodeCountIncrement", "setOutputs",
   "pulseConfigure", "setPinDirection", "pulseGo", "pinOutput"}

\* Operations that end with
\*   if (response !== 'OK') throw new Error(`Unexpected response: ...`)
UnexpectedOps ==
  {"reset", "servoOutput", "stepperAndServoModeConfigure", "setEngraver",
   "setLayer", "stepperMove", "setNodeCount", "setPenState",
   "setServoPowerTimeout", "setNickname", "timedRead", "togglePen",
   "stepperMoveMixedAxis"}

\* Operations that await their command and never look at the response:
\* togglePen called with a duration, configureUserOptions (for each of its
\* three commands), enterBootloader and reboot.
UncheckedOps ==
  {"togglePenDuration", "configureUserOptions", "enterBootloader", "reboot"}

\* if (response !== 'OK')
AckRejects(response) == response # OK

\* if (response.indexOf('\r\n') === -1)
NoLineBreak(response) == IndexOf(response, CRLF) = -1

\* Variant: the status line is not looked at.
StatusRejectsNever(status) == FALSE

\* if (status !== 'OK')
StatusRejects(status) == status # OK

\* The checks every data + acknowledgment decoder but queryLayer starts with:
\*   if (response.indexOf('\r\n') === -1) throw ...
\*   const [data, status] = response.split('\r\n');
\*   if (status !== 'OK') throw ...
DataAckRejects(response) ==
  NoLineBreak(response) \/ StatusRejects(At(Split(response, CRLF), 2))

\* The first element of response.split('\r\n').
DataLine(response) == At(Split(response, CRLF), 1)

emergencyStop(response) ==
  IF DataAckRejects(response) THEN Unexpected(response)
  ELSE LET f == Split(DataLine(response), COMMA)
       IN Fulfilled([interrupted |-> At(f, 1) = <<"1">>,
                     fifoSteps |-> <<ParseInt(At(f, 2)), ParseInt(At(f, 3))>>,
                     stepsRemaining |-> <<ParseInt(At(f, 4)), ParseInt(At(f, 5))>>])

queryButton(response) ==
  IF DataAckRejects(response) THEN Unexpected(response)
  ELSE Fulfilled(DataLine(response) = <<"1">>)

\* The element k of fields.map((x) => parseInt(x, 10)); a missing element
\* (undefined) is kept as NaN, neither being a number.
ParsedField(fields, k) == IF k <= Len(fields) THEN ParseInt(fields[k]) ELSE NaN

\* The two raw readings; the conversion to ampere and volt in floating
\* point that follows is not part of the model.
queryCurrent(response) ==
  IF DataAckRejects(response) THEN Unexpected(response)
  ELSE LET f == Split(DataLine(response), COMMA)
       IN Fulfilled([ra0VoltageRaw |-> ParsedField(f, 1),
                     vpVoltageRaw |-> ParsedField(f, 2)])

\* Variant: the table is filled in the order of the constants' values.
motorStatesAscending ==
  [m \in {0, 1, 2, 4, 8, 16} |->
     CASE m = 0 -> MOTOR_DISABLE
       [] m = 1 -> MOTOR_STEP_DIV16
       [] m = 2 -> MOTOR_STEP_DIV8
       [] m = 4 -> MOTOR_STEP_DIV4
       [] m = 8 -> MOTOR_STEP_DIV2
       [] m = 16 -> MOTOR_STEP_DIV1]

\* const motorStates = { 0: MOTOR_DISABLE, 1: MOTOR_STEP_DIV1, ... }
motorStates ==
  [m \in {0, 1, 2, 4, 8, 16} |->
     CASE m = 0 -> MOTOR_DISABLE
       [] m = 1 -> MOTOR_STEP_DIV1
       [] m = 2 -> MOTOR_STEP_DIV2
       [] m = 4 -> MOTOR_STEP_DIV4
       [] m = 8 -> MOTOR_STEP_DIV8
       [] m = 16 -> MOTOR_STEP_DIV16]

\* mode in motorStates, for a parsed number or NaN
InMotorStates(mode) == mode # NaN /\ mode.n \in DOMAIN motorStates

queryMotorConfig(response) ==
  IF DataAckRejects(response) THEN Unexpected(response)
  ELSE LET f == Split(DataLine(response), COMMA)
           m1Mode == ParsedField(f, 1)
           m2Mode == ParsedField(f, 2)
       IN IF ~InMotorStates(m1Mode) \/ ~InMotorStates(m2Mode)
          THEN Unexpected(response)
          ELSE Fulfilled(<<motorStates[m1Mode.n], motorStates[m2Mode.n]>>)

\* queryLayer splits without the indexOf test: with no line break in the
\* response, status is undefined.
queryLayer(response) ==
  IF StatusRejects(At(Split(response, CRLF), 2)) THEN Unexpected(response)
  ELSE Fulfilled(ParseInt(DataLine(response)))

queryPen(response) ==
  IF DataAckRejects(response) THEN Unexpected(response)
  ELSE Fulfilled(ParseInt(DataLine(response)) = Num(PEN_DOWN))

queryServoPower(response) ==
  IF DataAckRejects(response) THEN Unexpected(response)
  ELSE Fulfilled(ParseInt(DataLine(response)) = Num(SERVO_POWER_ON))

queryStepPosition(response) ==
  IF DataAckRejects(response) THEN Unexpected(response)
  ELSE LET f == Split(DataLine(response), COMMA)
       IN Fulfilled(<<ParseInt(At(f, 1)), ParseInt(At(f, 2))>>)

queryNickname(response) ==
  IF DataAckRejects(response) THEN Unexpected(response)
  ELSE Fulfilled(DataLine(response))

queryNodeCount(response) ==
  IF DataAckRejects(response) THEN Unexpected(response)
  ELSE Fulfilled(ParseInt(DataLine(response)))

\* The digits parseInt(s, 16) accepts besides 0-9, in both cases.
HexLetters == <<"A", "B", "C", "D", "E", "F">>
HexLettersLower == <<"a", "b", "c", "d", "e", "f">>

IsHexDigit(ch) ==
  IsDigit(ch) \/ \E d \in 1..6 : HexLetters[d] = ch \/ HexLettersLower[d] = ch

HexDigitValue(ch) ==
  IF IsDigit(ch) THEN DigitValue(ch)
  ELSE 9 + (CHOOSE d \in 1..6 : HexLetters[d] = ch \/ HexLettersLower[d] = ch)

\* The value of the leading hexadecimal digits of s, continuing from acc.
RECURSIVE HexDigitsValue(_, _)
HexDigitsValue(s, acc) ==
  IF s = <<>> \/ ~IsHexDigit(Head(s)) THEN acc
  ELSE HexDigitsValue(Tail(s), 16 * acc + HexDigitValue(Head(s)))

\* parseInt(s, 16): optional white space, optional sign, optional 0x or 0X,
\* then the longest run of hexadecimal digits; NaN if there is no digit.
ParseIntHex(s) ==
  IF s = Undefined THEN NaN
  ELSE LET t == TrimStart(s)
           signed == t # <<>> /\ Head(t) \in {"+", "-"}
           u == IF signed THEN Tail(t) ELSE t
           prefixed == Len(u) >= 2 /\ u[1] = "0" /\ u[2] \in {"x", "X"}
           v == IF prefixed THEN Tail(Tail(u)) ELSE u
       IN IF v = <<>> \/ ~IsHexDigit(Head(v)) THEN NaN
          ELSE IF signed /\ Head(t) = "-" THEN Num(0 - HexDigitsValue(v, 0))
          ELSE Num(HexDigitsValue(v, 0))

\* Variant: the mask is shifted by one bit too many (1 << (bit + 1)).
bitSetShifted(byte, bit) ==
  byte # NaN /\ ((byte.n % 512) \div (2 ^ (bit + 1))) % 2 = 1

\* const bitSet = (byte, bit) => (byte & (1 << bit)) > 0, for bit in 0..7.
\* NaN & mask is 0.  Bit `bit` of the 32-bit two's complement of byte is
\* that bit of byte modulo 256.
bitSet(byte, bit) ==
  byte # NaN /\ ((byte.n % 256) \div (2 ^ bit)) % 2 = 1

queryGeneral(response) ==
  LET statusByte == ParseIntHex(response)
  IN Fulfilled([pinRB5 |-> bitSet(statusByte, 7),
                pinRB2 |-> bitSet(statusByte, 6),
                buttonPrg |-> bitSet(statusByte, 5),
                penDown |-> bitSet(statusByte, 4),
                commandExecuting |-> bitSet(statusByte, 3),
                motor1Moving |-> bitSet(statusByte, 2),
                motor2Moving |-> bitSet(statusByte, 1),
                fifoEmpty |-> ~bitSet(statusByte, 0)])

\* s.startsWith(p)
StartsWith(s, p) == Len(s) >= Len(p) /\ SubSeq(s, 1, Len(p)) = p

\* x > 0 and x === 0 for a parsed number or NaN.
Positive(x) == x # NaN /\ x.n > 0
IsZero(x) == x # NaN /\ x.n = 0

\* Variant: the tag of the response is not looked at.
queryMotorsUntagged(response) ==
  LET f == Split(response, COMMA)
  IN Fulfilled([executingMotion |-> Positive(ParseInt(At(f, 2))),
                motorMoving |-> <<At(f, 3) = <<"1">>, At(f, 4) = <<"1">> >>,
                fifoEmpty |-> IsZero(ParseInt(At(f, 5)))])

queryMotors(response) ==
  IF ~StartsWith(response, <<"Q", "M", ",">>) THEN Unexpected(response)
  ELSE LET f == Split(response, COMMA)
       IN Fulfilled([executingMotion |-> Positive(ParseInt(At(f, 2))),
                     motorMoving |-> <<At(f, 3) = <<"1">>, At(f, 4) = <<"1">> >>,
                     fifoEmpty |-> IsZero(ParseInt(At(f, 5)))])

\* The decimal digits of a natural number.
RECURSIVE Decimal(_)
Decimal(n) ==
  IF n < 10 THEN <<Digits[n + 1]>>
  ELSE Decimal(n \div 10) \o <<Digits[(n % 10) + 1]>>

\* String(x) for a parsed number or NaN: the property key [x] of an object.
NumberToString(x) ==
  IF x = NaN THEN <<"N", "a", "N">>
  ELSE IF x.n < 0 THEN <<"-">> \o Decimal(0 - x.n)
  ELSE Decimal(x.n)

\* { ...readings, [key]: value }
WithEntry(readings, key, value) ==
  [k \in DOMAIN readings \cup {key} |-> IF k = key THEN value ELSE readings[k]]

\* .reduce((readings, channelValueStr) => {...}, readings) over the tokens:
\* each token is split at ':' and both pieces are parsed; a missing piece
\* is undefined.
RECURSIVE Readings(_, _)
Readings(tokens, readings) ==
  IF tokens = <<>> THEN readings
  ELSE LET f == Split(Head(tokens), <<":">>)
           channel == ParseInt(f[1])
           value == IF Len(f) >= 2 THEN ParseInt(f[2]) ELSE [undefined |-> TRUE]
       IN Readings(Tail(tokens),
                   WithEntry(readings, NumberToString(channel), value))

\* Variant: the leading tag is not sliced off the tokens.
analogValueGetUnsliced(response) ==
  Fulfilled(Readings(Split(response, COMMA), <<>>))

\* response.split(',').slice(1).reduce(..., {}).  The object is a function
\* from property keys to values; {} is <<>>.
analogValueGet(response) ==
  Fulfilled(Readings(Tail(Split(response, COMMA)), <<>>))

\* The operations that call command(..., 2) and decode a data line followed
\* by an acknowledgment.
DataAckOps ==
  {"emergencyStop", "queryButton", "queryCurrent", "queryMotorConfig",
   "queryLayer", "queryPen", "queryServoPower", "queryStepPosition",
   "queryNickname", "queryNodeCount"}

\* The operations that decode one structured line without acknowledgment.
StatusLineOps == {"queryGeneral", "queryMotors", "analogValueGet"}

Operations ==
  ReceivedUnexpectedOps \cup UnexpectedOps \cup UncheckedOps \cup DataAckOps
    \cup StatusLineOps \cup {"queryVersion"}

\* The numResponseLines argument of the operation's command() call.
NumResponseLines(op) == IF op \in DataAckOps THEN 2 ELSE 1

\* What operation op settles its promise with when its command() promise is
\* fulfilled with response.
Decoder(op, response) ==
  CASE op \in ReceivedUnexpectedOps ->
         IF AckRejects(response)
         THEN Rejected("Received unexpected response: ", response)
         ELSE Fulfilled(Undefined)
    [] op \in UnexpectedOps ->
         IF AckRejects(response) THEN Unexpected(response)
         ELSE Fulfilled(Undefined)
    [] op \in UncheckedOps -> Fulfilled(Undefined)
    [] op = "queryVersion" -> Fulfilled(response)
    [] op = "emergencyStop" -> emergencyStop(response)
    [] op = "queryButton" -> queryButton(response)
    [] op = "queryCurrent" -> queryCurrent(response)
    [] op = "queryMotorConfig" -> queryMotorConfig(response)
    [] op = "queryLayer" -> queryLayer(response)
    [] op = "queryPen" -> queryPen(response)
    [] op = "queryServoPower" -> queryServoPower(response)
    [] op = "queryStepPosition" -> queryStepPosition(response)
    [] op = "queryNickname" -> queryNickname(response)
    [] op = "queryNodeCount" -> queryNodeCount(response)
    [] op = "queryGeneral" -> queryGeneral(response)
    [] op = "queryMotors" -> queryMotors(response)
    [] op = "analogValueGet" -> analogValueGet(response)

\* The operation that writes command string s, among those of Next.
OperationOf(s) ==
  CASE s = "CS" -> "clearStepPosition"
    [] s = "QB" -> "queryButton"
    [] s = "V" -> "queryVersion"
    [] OTHER -> "memoryWrite"

\* The characters of a line the device sends.
Chars(text) ==
  CASE text = "OK" -> OK
    [] text = "1" -> <<"1">>
    [] text = "EBBv13" -> <<"E", "B", "B", "v", "1", "3">>

\* The operation that issued command c resumes after its await with the
\* response text and runs to its end.  It resumes in a microtask of its own,
\* queued when the continuation fulfilled the promise of command().
Decode(c) ==
  /\ outcome[c].state = "fulfilled"
  /\ opResult[c].state = "none"
  /\ opResult' = [opResult EXCEPT ![c] =
       Decoder(OperationOf(cmd[c]),
               ResponseText([i \in 1..Len(lines[c]) |-> Chars(lines[c][i].text)]))]
  /\ UNCHANGED <<connected, proto, lineLog, listenerThrew, thrown, probe,
                 disconnects, rebootAnswers>>

\* enterBootloader() and reboot() up to their await: command('BL') and
\* command('RB') with the default of one response line.
EnterBootloader == Command("BL", 1)

Reboot == Command("RB", 1)

\* Variant: the operation does not await its command.
AwaitedAtCall(c) == outcome[c].state \in {"pending", "fulfilled"}

\* await this.command(...): the operation resumes once the promise command()
\* returned is fulfilled.
Awaited(c) == outcome[c].state = "fulfilled"

\* enterBootloader() and reboot() after their await:
\*   return this.port.disconnect();
DisconnectAfter(c) ==
  /\ cmd[c] \in {"BL", "RB"}
  /\ Awaited(c)
  /\ opResult[c].state = "none"
  /\ connected' = FALSE
  /\ disconnects' = Append(disconnects, c)
  /\ opResult' = [opResult EXCEPT ![c] = Fulfilled(Undefined)]
  /\ UNCHANGED <<proto, lineLog, listenerThrew, thrown, probe, rebootAnswers>>

\* Lines a device may send in a response: those of the tests, and lines
\* that differ from them.
ProbeLines ==
  {OK, <<"o", "k">>, <<"O", "K", " ">>, <<>>, <<"1">>, <<"0">>,
   <<"4", ",", "1", "6">>, <<"3", ",", "1">>, <<"1", ",", "2", ",", "3", ",", "4", ",", "5">>,
   <<"-", "4", "2", "9">>, <<"!", "E", "r", "r">>}

\* The values of a byte.
Bytes == 0..255

\* The status byte b as the device sends it in reply to QG: two hexadecimal
\* digits in upper case ('3E').
HexByte(b) ==
  LET hex == Digits \o HexLetters
  IN <<hex[(b \div 16) + 1], hex[(b % 16) + 1]>>

\* Values of the four fields of the reply to QM.
FlagValues == {0, 1}

\* The line the device sends in reply to QM ('QM,1,1,1,1').
MotorsLine(cmdStatus, m1Status, m2Status, fifoStatus) ==
  <<"Q", "M">> \o COMMA \o Decimal(cmdStatus) \o COMMA \o Decimal(m1Status)
    \o COMMA \o Decimal(m2Status) \o COMMA \o Decimal(fifoStatus)

\* Microstep values the device may report in reply to QE: the six it
\* documents and three others.
ModeValues == {0, 1, 2, 4, 8, 16, 3, 5, 32}

\* The data line the device sends in reply to QE ('4,16').
ModeLine(m1, m2) == Decimal(m1) \o COMMA \o Decimal(m2)

\* n in decimal, padded with zeros to width characters.
RECURSIVE Padded(_, _)
Padded(n, width) ==
  IF Len(Decimal(n)) >= width THEN Decimal(n)
  ELSE <<"0">> \o Padded(n, width - 1)

\* Analog channels and readings: those of the test 'Getting an analog value'.
AnalogChannels == {0, 2, 5, 9}
AnalogValues == {0, 89, 1023}
ExampleReadings == (0 :> 713) @@ (2 :> 241) @@ (5 :> 89) @@ (9 :> 1004)

\* The readings of the enabled channels, as a function of the channel.
AnalogReadings ==
  UNION {[chans -> AnalogValues] : chans \in SUBSET AnalogChannels}
    \cup {ExampleReadings}

\* The tokens ',cc:vvvv' of the channels in chans, in ascending order.
RECURSIVE AnalogTokens(_, _)
AnalogTokens(r, chans) ==
  IF chans = {} THEN <<>>
  ELSE LET ch == CHOOSE x \in chans : \A y \in chans : x <= y
       IN COMMA \o Padded(ch, 2) \o <<":">> \o Padded(r[ch], 4)
            \o AnalogTokens(r, chans \ {ch})

\* The line the device sends in reply to A ('A,00:0713,02:0241').
AnalogLine(r) == <<"A">> \o AnalogTokens(r, DOMAIN r)

\* The lines that can be collected for an operation: as many as it declared,
\* among them the replies the device documents for the operation.
Collected(op) ==
  CASE op = "queryGeneral" ->
         {<<l>> : l \in ProbeLines \cup {HexByte(b) : b \in Bytes}}
    [] op = "queryMotors" ->
         {<<l>> : l \in ProbeLines \cup {<<"Q", "M">>, <<"Q", "M", "1", ",", "1">>}
                   \cup {MotorsLine(a, b, c, d) : a, b, c, d \in FlagValues}}
    [] op = "analogValueGet" ->
         {<<l>> : l \in ProbeLines \cup {AnalogLine(r) : r \in AnalogReadings}}
    [] op = "queryMotorConfig" ->
         {<<l, m>> : l \in ProbeLines \cup {ModeLine(a, b) : a, b \in ModeValues},
                     m \in ProbeLines}
    [] OTHER ->
         IF NumResponseLines(op) = 1
         THEN {<<l>> : l \in ProbeLines}
         ELSE {<<l, m>> : l, m \in ProbeLines}

\* One operation resumed with the response command() made of the collected
\* lines, its decoder still to run.
Probes ==
  UNION {{[op |-> op, lines |-> ls, response |-> ResponseText(ls),
           result |-> [state |-> "none"]] : ls \in Collected(op)} :
         op \in Operations}

DecodeProbe ==
  /\ probe # NoProbe
  /\ probe.result.state = "none"
  /\ probe' = [probe EXCEPT !.result = Decoder(probe.op, probe.response)]
  /\ UNCHANGED <<connected, proto, lineLog, listenerThrew, thrown, opResult,
                 disconnects, rebootAnswers>>

----------------------------------------------------------------------------
(***************************************************************************)
(* The operations before their command: parameter validation and the       *)
(* command string.  A number passed by the caller is an integer, an        *)
(* integer plus one half, NaN or undefined.  An integer below -2^31 or     *)
(* above 2^31 - 1 is written hi * 2^16 + lo with lo in 0..2^16 - 1.        *)
(***************************************************************************)
JsInt(n) == [kind |-> "int", n |-> n]
JsHalf(n) == [kind |-> "half", n |-> n]
JsWide(hi, lo) == [kind |-> "wide", hi |-> hi, lo |-> lo]
JsNaN == [kind |-> "NaN"]
JsUndefined == [kind |-> "undefined"]

\* 2 ** 31 - 1 and -(2 ** 31)
Int31Max == 2147483647
Int31Min == (0 - 2147483647) - 1

\* v < k, v <= k, v > k and v >= k for an integer k in -2^31..2^31 - 1; all
\* are false for NaN and undefined.
Lt(v, k) ==
  \/ v.kind \in {"int", "half"} /\ v.n < k
  \/ v.kind = "wide" /\ v.hi < 0
Le(v, k) ==
  \/ v.kind = "int" /\ v.n <= k
  \/ v.kind = "half" /\ v.n < k
  \/ v.kind = "wide" /\ v.hi < 0
Gt(v, k) ==
  \/ v.kind = "int" /\ v.n > k
  \/ v.kind = "half" /\ v.n >= k
  \/ v.kind = "wide" /\ v.hi >= 0
Ge(v, k) ==
  \/ v.kind \in {"int", "half"} /\ v.n >= k
  \/ v.kind = "wide" /\ v.hi >= 0

\* Number.isInteger(v)
IsInteger(v) == v.kind \in {"int", "wide"}

\* Math.floor(v)
Floor(v) ==
  CASE v.kind = "half" -> JsInt(v.n)
    [] v.kind \in {"NaN", "undefined"} -> JsNaN
    [] OTHER -> v

\* The decimal digits of hi * 2^16 + lo for hi >= 0 and lo in 0..2^16.
RECURSIVE WideDecimal(_, _)
WideDecimal(hi, lo) ==
  IF hi = 0 THEN Decimal(lo)
  ELSE LET r == (hi % 10) * 65536 + lo
       IN WideDecimal(hi \div 10, r \div 10) \o <<Digits[(r % 10) + 1]>>

\* `${v}` in a template literal.
ToStr(v) ==
  CASE v.kind = "int" ->
         IF v.n < 0
         THEN LET m == 0 - (v.n + 1)
              IN <<"-">> \o WideDecimal(m \div 65536, (m % 65536) + 1)
         ELSE Decimal(v.n)
    [] v.kind = "half" ->
         IF v.n < 0 THEN <<"-">> \o Decimal((0 - v.n) - 1) \o <<".", "5">>
         ELSE Decimal(v.n) \o <<".", "5">>
    [] v.kind = "wide" ->
         IF v.hi >= 0 THEN WideDecimal(v.hi, v.lo)
         ELSE IF v.lo = 0 THEN <<"-">> \o WideDecimal(0 - v.hi, 0)
         ELSE <<"-">> \o WideDecimal((0 - v.hi) - 1, 65536 - v.lo)
    [] v.kind = "NaN" -> <<"N", "a", "N">>
    [] v.kind = "undefined" ->
         <<"u", "n", "d", "e", "f", "i", "n", "e", "d">>

\* The pieces of a command string with a comma between them.
RECURSIVE Fields(_)
Fields(parts) ==
  IF Len(parts) = 1 THEN parts[1]
  ELSE parts[1] \o COMMA \o Fields(Tail(parts))

\* What a call comes to before it awaits: it throws, or it calls command().
Thrown(message) == [state |-> "thrown", message |-> message]
Written(str, n) == [state |-> "written", cmd |-> str, numResponseLines |-> n]

\* The first message of msgs that is not empty: the checks run in order and
\* the first one that fails throws.
FirstError(msgs) ==
  IF \A i \in 1..Len(msgs) : msgs[i] = "" THEN ""
  ELSE msgs[CHOOSE i \in 1..Len(msgs) :
              msgs[i] # "" /\ \A j \in 1..(i - 1) : msgs[j] = ""]

\* Variant: the test for integers is left out.
assertByteRangeOnly(value) ==
  IF Lt(value, 0) \/ Gt(value, 255)
  THEN "Byte value must be between 0 and 255."
  ELSE ""

\* assertByte(value): the message it throws, "" if it returns.
assertByte(value) ==
  IF Lt(value, 0) \/ Gt(value, 255)
  THEN "Byte value must be between 0 and 255."
  ELSE IF ~IsInteger(value) THEN "Byte values must be integers."
  ELSE ""

\* if (address < 0 || address > 4095) throw
assertAddress(address) ==
  IF Lt(address, 0) \/ Gt(address, 4095)
  THEN "Address must be between 0 and 4095."
  ELSE ""

\* Variant: the letter is looked up in ['A', 'B', 'C', 'D'].
assertValidPortLetterNoE(portLetter) ==
  IF portLetter \notin {<<"A">>, <<"B">>, <<"C">>, <<"D">>}
  THEN "Port letter must be A, B, C, D, or E."
  ELSE ""

\* assertValidPortLetter(portLetter)
assertValidPortLetter(portLetter) ==
  IF portLetter \notin {<<"A">>, <<"B">>, <<"C">>, <<"D">>, <<"E">>}
  THEN "Port letter must be A, B, C, D, or E."
  ELSE ""

\* if (pinIndex < 0 || pinIndex > 7) throw
assertPinIndex(pinIndex) ==
  IF Lt(pinIndex, 0) \/ Gt(pinIndex, 7)
  THEN "Pin index must be between 0 and 7."
  ELSE ""

\* Variant: the two constants are exchanged.
penStateInverted(penDown) == IF penDown THEN PEN_UP ELSE PEN_DOWN

\* const penState = penDown ? PEN_DOWN : PEN_UP
penState(penDown) == IF penDown THEN PEN_DOWN ELSE PEN_UP

\* b ? 1 : 0 and b ? 0 : 1 in a template literal.
OneIf(b) == IF b THEN <<"1">> ELSE <<"0">>
ZeroIf(b) == IF b THEN <<"0">> ELSE <<"1">>

configurePinDirections(a) ==
  LET err == FirstError([i \in 1..5 |-> assertByte(a[i])])
  IN IF err # "" THEN Thrown(err)
     ELSE Written(Fields(<<<<"C">>>> \o [i \in 1..5 |-> ToStr(a[i])]), 1)

setOutputs(a) ==
  LET err == FirstError([i \in 1..5 |-> assertByte(a[i])])
  IN IF err # "" THEN Thrown(err)
     ELSE Written(Fields(<<<<"O">>>> \o [i \in 1..5 |-> ToStr(a[i])]), 1)

memoryRead(a) ==
  LET err == assertAddress(a[1])
  IN IF err # "" THEN Thrown(err)
     ELSE Written(Fields(<<<<"M", "R">>, ToStr(a[1])>>), 1)

memoryWrite(a) ==
  LET err == FirstError(<<assertAddress(a[1]), assertByte(a[2])>>)
  IN IF err # "" THEN Thrown(err)
     ELSE Written(Fields(<<<<"M", "W">>, ToStr(a[1]), ToStr(a[2])>>), 1)

setPinDirection(a) ==
  LET err == FirstError(<<assertValidPortLetter(a[1]), assertPinIndex(a[2])>>)
  IN IF err # "" THEN Thrown(err)
     ELSE Written(Fields(<<<<"P", "D">>, a[1], ToStr(a[2]), ZeroIf(a[3])>>), 1)

pinInput(a) ==
  LET err == FirstError(<<assertValidPortLetter(a[1]), assertPinIndex(a[2])>>)
  IN IF err # "" THEN Thrown(err)
     ELSE Written(Fields(<<<<"P", "I">>, a[1], ToStr(a[2])>>), 1)

pinOutput(a) ==
  LET err == FirstError(<<assertValidPortLetter(a[1]), assertPinIndex(a[2])>>)
  IN IF err # "" THEN Thrown(err)
     ELSE Written(Fields(<<<<"P", "O">>, a[1], ToStr(a[2]), OneIf(a[3])>>), 1)

\* setPenState(penDown, duration, portBPin)
setPenState(a) ==
  LET penDown == a[1]
      duration == a[2]
      portBPin == a[3]
      state == Decimal(penState(penDown))
  IN IF duration # JsUndefined /\ (Lt(duration, 1) \/ Ge(duration, 2 ^ 16))
     THEN Thrown("Duration must be between 1 and 2^16")
     ELSE IF portBPin # JsUndefined /\ (Lt(portBPin, 0) \/ Gt(portBPin, 7))
     THEN Thrown("Port B pin must be between 0 and 7")
     ELSE IF duration # JsUndefined /\ portBPin # JsUndefined
     THEN Written(Fields(<<<<"S", "P">>, state, ToStr(duration), ToStr(portBPin)>>), 1)
     ELSE IF duration # JsUndefined
     THEN Written(Fields(<<<<"S", "P">>, state, ToStr(duration)>>), 1)
     ELSE Written(Fields(<<<<"S", "P">>, state>>), 1)

\* if (v < lo || v > hi) throw new Error(message)
RangeError(v, lo, hi, message) ==
  IF Lt(v, lo) \/ Gt(v, hi) THEN message ELSE ""

\* Variant: the two weights are exchanged.
clearValueSwapped(m1Clear, m2Clear) ==
  (IF m2Clear THEN 1 ELSE 0) + (IF m1Clear THEN 2 ELSE 0)

\* const clearValue = (m2Clear ? 2 : 0) + (m1Clear ? 1 : 0)
clearValue(m1Clear, m2Clear) ==
  (IF m2Clear THEN 2 ELSE 0) + (IF m1Clear THEN 1 ELSE 0)

\* lowLevelMove(m1Rate, m1Steps, m1Accel, m1Clear, m2Rate, m2Steps, m2Accel,
\* m2Clear)
lowLevelMove(a) ==
  LET err == FirstError(<<
        RangeError(a[1], 0, Int31Max,
                   "Motor 1 rate must be between 0 and 2^31-1."),
        RangeError(a[5], 0, Int31Max,
                   "Motor 2 rate must be between 0 and 2^31-1."),
        RangeError(a[2], Int31Min, Int31Max,
                   "Motor 1 steps must be between -2^31 and 2^31-1."),
        RangeError(a[6], Int31Min, Int31Max,
                   "Motor 2 steps must be between -2^31 and 2^31-1."),
        RangeError(a[3], Int31Min, Int31Max,
                   "Motor 1 acceleration must be between -2^31 and 2^31-1."),
        RangeError(a[7], Int31Min, Int31Max,
                   "Motor 2 acceleration must be between -2^31 and 2^31-1.")>>)
  IN IF err # "" THEN Thrown(err)
     ELSE Written(Fields(<<<<"L", "M">>, ToStr(a[1]), ToStr(a[2]), ToStr(a[3]),
                           ToStr(a[5]), ToStr(a[6]), ToStr(a[7]),
                           Decimal(clearValue(a[4], a[8]))>>), 1)

\* lowLevelMoveTimeLimited(intervals, m1Rate, m1Accel, m1Clear, m2Rate,
\* m2Accel, m2Clear)
lowLevelMoveTimeLimited(a) ==
  LET err == FirstError(<<
        RangeError(a[2], 0, Int31Max,
                   "Motor 1 rate must be between 0 and 2^31-1."),
        RangeError(a[5], 0, Int31Max,
                   "Motor 2 rate must be between 0 and 2^31-1."),
        RangeError(a[3], Int31Min, Int31Max,
                   "Motor 1 acceleration must be between -2^31 and 2^31-1."),
        RangeError(a[6], Int31Min, Int31Max,
                   "Motor 2 acceleration must be between -2^31 and 2^31-1.")>>)
  IN IF err # "" THEN Thrown(err)
     ELSE Written(Fields(<<<<"L", "T">>, ToStr(a[1]), ToStr(a[2]), ToStr(a[3]),
                           ToStr(a[5]), ToStr(a[6]),
                           Decimal(clearValue(a[4], a[7]))>>), 1)

\* pulseConfigure(duration0, period0, ..., duration3, period3)
pulseConfigure(a) ==
  Written(Fields(<<<<"P", "C">>>> \o [i \in 1..8 |-> ToStr(a[i])]), 1)

\* stepperMove(duration, m1Steps, m2Steps)
stepperMove(a) ==
  LET err == FirstError(<<
        RangeError(a[1], 1, 2 ^ 24 - 1,
                   "Duration must be between 1 and 2^24 - 1"),
        RangeError(a[2], 0 - 2 ^ 24, 2 ^ 24 - 1,
                   "M1 steps must be between -2^24 and 2^24 - 1"),
        RangeError(a[3], 0 - 2 ^ 24, 2 ^ 24 - 1,
                   "M2 steps must be between -2^24 and 2^24 - 1")>>)
  IN IF err # "" THEN Thrown(err)
     ELSE Written(Fields(<<<<"S", "M">>, ToStr(a[1]), ToStr(a[2]),
                           ToStr(a[3])>>), 1)

\* stepperMoveMixedAxis(durationMs, stepsA, stepsB)
stepperMoveMixedAxis(a) ==
  IF Lt(a[1], 1) \/ Ge(a[1], 2 ^ 24)
  THEN Thrown("Duration must be between 1 and 2^24 milliseconds")
  ELSE IF Le(a[2], 0 - 2 ^ 24) \/ Ge(a[2], 2 ^ 24)
  THEN Thrown("Steps A must be between 0 and 2^24")
  ELSE IF Lt(a[3], 0 - 2 ^ 24) \/ Ge(a[3], 2 ^ 24)
  THEN Thrown("Steps B must be between 0 and 2^24")
  ELSE Written(Fields(<<<<"X", "M">>, ToStr(Floor(a[1])), ToStr(Floor(a[2])),
                        ToStr(Floor(a[3]))>>), 1)

\* The operations above, by name.
CallOps ==
  {"configurePinDirections", "setOutputs", "memoryRead", "memoryWrite",
   "setPinDirection", "pinInput", "pinOutput", "setPenState",
   "lowLevelMove", "lowLevelMoveTimeLimited", "pulseConfigure",
   "stepperMove", "stepperMoveMixedAxis"}

Encoder(op, a) ==
  CASE op = "configurePinDirections" -> configurePinDirections(a)
    [] op = "setOutputs" -> setOutputs(a)
    [] op = "memoryRead" -> memoryRead(a)
    [] op = "memoryWrite" -> memoryWrite(a)
    [] op = "setPinDirection" -> setPinDirection(a)
    [] op = "pinInput" -> pinInput(a)
    [] op = "pinOutput" -> pinOutput(a)
    [] op = "setPenState" -> setPenState(a)
    [] op = "lowLevelMove" -> lowLevelMove(a)
    [] op = "lowLevelMoveTimeLimited" -> lowLevelMoveTimeLimited(a)
    [] op = "pulseConfigure" -> pulseConfigure(a)
    [] op = "stepperMove" -> stepperMove(a)
    [] op = "stepperMoveMixedAxis" -> stepperMoveMixedAxis(a)

\* Arguments the operations are called with.
PortArgs == {JsInt(-1), JsInt(0), JsInt(255), JsInt(256), JsHalf(1), JsNaN}
ValueArgs ==
  PortArgs \cup {JsInt(123), JsHalf(-1), JsHalf(255), JsUndefined}
AddressArgs ==
  {JsInt(-1), JsInt(0), JsInt(1337), JsInt(4095), JsInt(4096), JsHalf(-1),
   JsHalf(7), JsHalf(4095)}
PortLetters ==
  {<<"A">>, <<"B">>, <<"C">>, <<"D">>, <<"E">>, <<"F">>, <<"Z">>, <<"a">>,
   <<>>, <<"A", "B">>}
PinArgs ==
  {JsInt(-1), JsInt(0), JsInt(3), JsInt(7), JsInt(8), JsHalf(-1), JsHalf(7)}
DurationArgs ==
  {JsUndefined, JsInt(0), JsInt(1), JsInt(1000), JsInt(65535), JsInt(65536)}
PortBPinArgs == {JsUndefined, JsInt(-1), JsInt(0), JsInt(7), JsInt(8)}

\* 2^31 and -2^31 - 1
TwoTo31 == JsWide(32768, 0)
BelowInt31Min == JsWide(-32769, 65535)

RateArgs ==
  {JsInt(0 - Int31Max), JsInt(-1), JsInt(0), JsInt(3865471), JsInt(Int31Max),
   TwoTo31}
AccelArgs ==
  {BelowInt31Min, JsInt(Int31Min), JsInt(0), JsInt(1732), JsInt(Int31Max),
   TwoTo31}
LowLevelStepArgs ==
  {BelowInt31Min, JsInt(Int31Min), JsInt(0), JsInt(60), JsInt(Int31Max),
   TwoTo31}
IntervalArgs ==
  {JsInt(-1), JsInt(0), JsInt(10169), JsInt(Int31Max), TwoTo31}
PulseArgs == {JsInt(-1), JsInt(65535), JsInt(65536)}
DurationMsArgs ==
  {JsInt(0), JsInt(1), JsInt(1337), JsInt(2 ^ 24 - 1), JsInt(2 ^ 24),
   JsHalf(0), JsHalf(1337)}
StepArgs ==
  {JsInt((0 - 2 ^ 24) - 1), JsInt(0 - 2 ^ 24), JsInt(1 - 2 ^ 24), JsInt(0),
   JsInt(100), JsInt(200), JsInt(2 ^ 24 - 1), JsInt(2 ^ 24), JsHalf(100)}

\* Calls of lowLevelMove: the parameters of one motor vary while the other
\* motor stands still.
LowLevelMoveArgs ==
  {<<r, s, a, c1, JsInt(0), JsInt(0), JsInt(0), c2>> :
     r \in RateArgs, s \in LowLevelStepArgs, a \in AccelArgs,
     c1 \in BOOLEAN, c2 \in BOOLEAN}
  \cup
  {<<JsInt(0), JsInt(0), JsInt(0), c1, r, s, a, c2>> :
     r \in RateArgs, s \in LowLevelStepArgs, a \in AccelArgs,
     c1 \in BOOLEAN, c2 \in BOOLEAN}

\* Calls of lowLevelMoveTimeLimited, likewise.
LowLevelMoveTimeLimitedArgs ==
  {<<i, r, a, c1, JsInt(0), JsInt(0), c2>> :
     i \in IntervalArgs, r \in RateArgs, a \in AccelArgs,
     c1 \in BOOLEAN, c2 \in BOOLEAN}
  \cup
  {<<JsInt(10169), JsInt(0), JsInt(0), c1, r, a, c2>> :
     r \in RateArgs, a \in AccelArgs, c1 \in BOOLEAN, c2 \in BOOLEAN}

Arguments(op) ==
  CASE op \in {"configurePinDirections", "setOutputs"} -> [1..5 -> PortArgs]
    [] op = "memoryRead" -> {<<a>> : a \in AddressArgs}
    [] op = "memoryWrite" -> AddressArgs \X ValueArgs
    [] op \in {"setPinDirection", "pinOutput"} ->
         PortLetters \X PinArgs \X BOOLEAN
    [] op = "pinInput" -> PortLetters \X PinArgs
    [] op = "setPenState" -> BOOLEAN \X DurationArgs \X PortBPinArgs
    [] op = "lowLevelMove" -> LowLevelMoveArgs
    [] op = "lowLevelMoveTimeLimited" -> LowLevelMoveTimeLimitedArgs
    [] op = "pulseConfigure" -> [1..8 -> PulseArgs]
    [] op \in {"stepperMove", "stepperMoveMixedAxis"} ->
         DurationMsArgs \X StepArgs \X StepArgs

Calls ==
  UNION {{[op |-> op, args |-> a, result |-> [state |-> "none"]] :
            a \in Arguments(op)} : op \in CallOps}

\* The operation runs up to its call of command().
CallProbe ==
  /\ probe # NoProbe
  /\ probe.result.state = "none"
  /\ probe' = [probe EXCEPT !.result = Encoder(probe.op, probe.args)]
  /\ UNCHANGED <<connected, proto, lineLog, listenerThrew, thrown, opResult,
                 disconnects, rebootAnswers>>

\* After setPenState has written its command, queryPen is called; the board
\* answers with the state it was given last, then OK.
QueryPenAfterSet ==
  /\ probe # NoProbe
  /\ probe.op = "setPenState"
  /\ probe.result.state = "written"
  /\ LET s == Split(probe.result.cmd, COMMA)[2]
     IN probe' = [probe EXCEPT !.result =
                    [state |-> "queried", cmd |-> probe.result.cmd,
                     pen |-> queryPen(ResponseText(<<s, OK>>))]]
  /\ UNCHANGED <<connected, proto, lineLog, listenerThrew, thrown, opResult,
                 disconnects, rebootAnswers>>

----------------------------------------------------------------------------
Next ==
  \/ Connect
  \/ Disconnect
  \/ ClearStepPosition
  \/ QueryButton
  \/ QueryVersion
  \/ \E address \in AddressInputs, value \in ByteInputs : MemoryWrite(address, value)
  \/ \E c \in CmdIds : PrintFulfilled(c)
  \/ \E c \in CmdIds : PrintRejected(c)
  \/ \E c \in CmdIds : Continuation(c)
  \/ \E c \in CmdIds : ResponseRejected(c)
  \/ \E c \in CmdIds : Timeout(c)
  \/ DeviceEmit

Spec == Init /\ [][Next]_vars

\* Promise reactions are microtasks and timers are macrotasks of the event
\* loop: each runs once it is ready.  Nothing obliges the caller to call an
\* operation or the device to answer.
Fairness ==
  \A c \in CmdIds :
    /\ WF_vars(PrintFulfilled(c))
    /\ WF_vars(PrintRejected(c))
    /\ WF_vars(Continuation(c))
    /\ WF_vars(ResponseRejected(c))
    /\ WF_vars(Timeout(c))

FairSpec == Spec /\ Fairness

\* The protocol core together with the operations that resume after their
\* command.
OpNext ==
  \/ Next
  \/ \E c \in CmdIds : Decode(c)

OpSpec == Init /\ [][OpNext]_vars

\* The decoders alone: an operation is resumed with any response of the
\* declared number of lines and runs to its end.
DecInit ==
  /\ Constructed
  /\ opResult = [c \in CmdIds |-> [state |-> "none"]]
  /\ probe \in Probes
  /\ rebootAnswers = TRUE

DecNext == DecodeProbe

DecSpec == DecInit /\ [][DecNext]_vars

\* The operations before their command: every call of Calls, one at a time.
EncInit ==
  /\ Constructed
  /\ opResult = [c \in CmdIds |-> [state |-> "none"]]
  /\ probe \in Calls
  /\ rebootAnswers = TRUE

EncNext == CallProbe \/ QueryPenAfterSet

EncSpec == EncInit /\ [][EncNext]_vars

\* The protocol core with enterBootloader and reboot as its operations, on
\* a board that answers RB with OK (as the tests do) or with nothing (as
\* the board's documentation and the comment in reboot() say).
BootInit ==
  /\ Constructed
  /\ opResult = [c \in CmdIds |-> [state |-> "none"]]
  /\ probe = NoProbe
  /\ rebootAnswers \in BOOLEAN

BootNext ==
  \/ Connect
  \/ EnterBootloader
  \/ Reboot
  \/ \E c \in CmdIds : PrintFulfilled(c)
  \/ \E c \in CmdIds : PrintRejected(c)
  \/ \E c \in CmdIds : Continuation(c)
  \/ \E c \in CmdIds : ResponseRejected(c)
  \/ \E c \in CmdIds : Timeout(c)
  \/ \E c \in CmdIds : DisconnectAfter(c)
  \/ DeviceEmit

BootSpec == BootInit /\ [][BootNext]_vars

\* Promise reactions and timers run once they are due, the transport
\* delivers the lines the board has sent, and an operation resumes once the
\* promise it awaits is fulfilled.
BootFairness ==
  /\ Fairness
  /\ WF_vars(DeviceEmit)
  /\ \A c \in CmdIds : WF_vars(DisconnectAfter(c))

BootFairSpec == BootSpec /\ BootFairness

----------------------------------------------------------------------------
\* The elements of a sequence.
Range(q) == {q[i] : i \in 1..Len(q)}

\* Command c has been handed to the transport's print and its response has
\* neither been collected in full nor timed out.
InFlight(c) == c \in Range(printed) /\ responsePromise[c] = "pending"

\* The lines that found a handler pending, in arrival order.
Routed == SelectSeq(lineLog, LAMBDA e : e.handler # 0)

\* C1: in every reachable state at most one command is in flight, that is,
\* handed to print with its response neither complete nor timed out.
C1_AtMostOneInFlight == Cardinality({c \in CmdIds : InFlight(c)}) <= 1

\* A command is in flight while another one waits behind it.
C1_Witness == \E c \in CmdIds : InFlight(c) /\ Len(pending) >= 2

\* C2: print is called for the commands in the order of their command()
\* calls (call i is the i-th print), and a command is printed only once the
\* response of the one printed before it has been fulfilled.
C2_PrintsInCallOrder ==
  \A i \in 1..Len(printed) :
    /\ printed[i] = i
    /\ i > 1 => responsePromise[printed[i - 1]] = "fulfilled"

\* Three commands A, B, C have all been printed.
C2_Witness == Len(printed) = 3

\* C3: once a command that was written to the device has timed out, it is
\* eventually removed from the pending queue (the queue advances).
C3_TimeoutAdvancesQueue ==
  \A c \in CmdIds :
    (c \in Range(writes) /\ timedOut[c] /\ c \in Range(pending))
      ~> (c \notin Range(pending))

\* C4: the promise returned by every command() call is eventually fulfilled
\* or rejected.
C4_EveryCommandSettles ==
  \A c \in CmdIds :
    (outcome[c].state = "pending")
      ~> (outcome[c].state \in {"fulfilled", "rejected"})

\* C5: when a command's timer fires, the promise command() returned is
\* eventually rejected with the 'timed out' error.
C5_TimeoutRejectsCaller ==
  \A c \in CmdIds :
    timedOut[c] ~> (outcome[c] = [state |-> "rejected", value |-> "timed out"])

\* C6: a line that arrives after the command it answers has timed out is
\* appended to no command's response.
C6_LateLinesDiscarded ==
  \A k \in 1..Len(lineLog) : lineLog[k].late => lineLog[k].appendedTo = 0

\* C7: handlers are consumed first-in first-out.  Each line that finds a
\* handler pending goes to the oldest one and to no other: the N-th such line
\* goes to the N-th handler registered, the handlers still pending are
\* exactly the ones registered after it, and handlers are registered in
\* command order, so no handler of a later command is served while one of an
\* earlier command is outstanding.
C7_HandlersFifo ==
  /\ \A k \in 1..Len(Routed) : Routed[k].handler = k
  /\ Len(Routed) <= Len(registered)
  /\ responseHandlers = SubSeq(registered, Len(Routed) + 1, Len(registered))
  /\ \A i, j \in 1..Len(registered) :
       i < j => registered[i].cmd <= registered[j].cmd

\* A line was dropped for want of a handler and a later line was routed to
\* a handler of a command with two handlers.
C7_Witness ==
  \E k \in 1..Len(Routed) :
    /\ Routed[k].handler = k
    /\ k > 1
    /\ registered[k].cmd = registered[k - 1].cmd
    /\ \E j \in 1..Len(lineLog) : lineLog[j].handler = 0

\* C8: a line notification that finds no handler pending changes nothing of
\* the protocol state and raises no error.
C8_UnexpectedLineNoEffect ==
  [][(Len(lineLog') > Len(lineLog) /\ Len(responseHandlers) = 0)
       => (UNCHANGED proto /\ ~listenerThrew'
           /\ UNCHANGED <<connected, thrown>>)]_vars

\* A line arrived with no handler pending and was dropped.
C8_Witness ==
  \E k \in 1..Len(lineLog) : lineLog[k].handler = 0

\* C9: an API call that fails validation leaves the protocol state as it
\* was: nothing printed, nothing queued, no handler, no timer.
C9_ValidationFailureNoEffect ==
  [][thrown' # thrown => UNCHANGED <<proto, connected, lineLog>>]_vars

\* memoryWrite threw while a command was in flight.
C9_Witness == thrown > 0 /\ \E c \in CmdIds : InFlight(c)

\* C10: when print rejects for a command, the promise command() returned
\* is eventually rejected with the transport's error.
C10_PrintFailureRejectsCaller ==
  \A c \in CmdIds :
    (chain[c] = "printRejected")
      ~> (outcome[c] = [state |-> "rejected", value |-> "Not connected"])

\* C11: when print rejects for a command, the command is eventually
\* removed from the pending queue (the queue advances).
C11_PrintFailureAdvancesQueue ==
  \A c \in CmdIds :
    (chain[c] = "printRejected") ~> (c \notin Range(pending))

\* C13: a command that has not been handed to print has not timed out.
C13_NoTimeoutBeforeWrite ==
  \A c \in CmdIds : timedOut[c] => c \in Range(printed)

\* C14: every handler in the pending-handler queue belongs to the command
\* at the head of the pending queue.
C14_HandlersBelongToHead ==
  \A i \in 1..Len(responseHandlers) :
    pending # <<>> /\ responseHandlers[i].cmd = Head(pending)

\* The positions in handler sequence q of the handlers of command c.
HandlerSlots(q, c) == {i \in 1..Len(q) : q[i].cmd = c}

\* The positions in slots are consecutive.
Consecutive(slots) ==
  \A i, j \in slots : \A k \in i..j : k \in slots

\* C15: the handlers of a command are pushed in one step.  Every command
\* issued has pushed exactly numResponseLines handlers, they are consecutive
\* in registration order and in the pending-handler queue, and the step that
\* pushes them pushes the handlers of one command only and delivers no line.
C15_HandlersRegisteredAtomically ==
  /\ [](\A c \in CmdIds :
          /\ Cardinality(HandlerSlots(registered, c)) = numResponseLines[c]
          /\ Consecutive(HandlerSlots(registered, c))
          /\ Consecutive(HandlerSlots(responseHandlers, c)))
  /\ [][registered' # registered =>
          /\ lineLog' = lineLog
          /\ issued' = issued + 1
          /\ \A i \in (Len(registered) + 1)..Len(registered') :
               registered'[i].cmd = issued']_vars

\* Two commands with two handlers each are registered, the handlers of the
\* first one still pending in part.
C15_Witness ==
  \E c, d \in CmdIds :
    /\ c < d
    /\ numResponseLines[c] = 2
    /\ numResponseLines[d] = 2
    /\ Cardinality(HandlerSlots(responseHandlers, c)) = 1
    /\ Cardinality(HandlerSlots(responseHandlers, d)) = 2

\* The texts of ls joined by carriage return, line feed.
RECURSIVE CrLfJoined(_)
CrLfJoined(ls) ==
  IF Len(ls) = 0 THEN ""
  ELSE IF Len(ls) = 1 THEN ls[1].text
  ELSE ls[1].text \o "\r\n" \o CrLfJoined(Tail(ls))

\* The lines appended to the response of command c, in arrival order.
RECURSIVE AppendedTo(_, _)
AppendedTo(log, c) ==
  IF log = <<>> THEN <<>>
  ELSE IF Head(log).appendedTo = c
  THEN <<Head(log).line>> \o AppendedTo(Tail(log), c)
  ELSE AppendedTo(Tail(log), c)

\* C16: the response of a command is fulfilled exactly when it has collected
\* its numResponseLines lines, never more; the caller's promise is fulfilled
\* only then, with those lines in arrival order joined by CR LF, and a
\* caller's promise that is not fulfilled carries no line.
C16_FulfilledWithItsLines ==
  \A c \in CmdIds :
    /\ Len(lines[c]) <= numResponseLines[c]
    /\ lines[c] = AppendedTo(lineLog, c)
    /\ (responsePromise[c] = "fulfilled")
         <=> (c <= issued /\ Len(lines[c]) = numResponseLines[c])
    /\ outcome[c].state = "fulfilled" =>
         /\ responsePromise[c] = "fulfilled"
         /\ outcome[c].value = CrLfJoined(lines[c])
    /\ outcome[c].state # "fulfilled" => outcome[c].value = ""

\* A caller received a two-line response while another command timed out
\* with one of its two lines collected.
C16_Witness ==
  \E c, d \in CmdIds :
    /\ outcome[c].state = "fulfilled"
    /\ Len(lines[c]) = 2
    /\ timedOut[d]
    /\ numResponseLines[d] = 2
    /\ Len(lines[d]) = 1

\* The lines the device sent in reply to command c.
ReplyLines(c) ==
  [k \in 1..Len(DeviceReply(cmd[c])) |->
     [cmd |-> c, idx |-> k, text |-> DeviceReply(cmd[c])[k]]]

\* C17: as long as no timer has fired (the device answers in time), every
\* caller whose promise is fulfilled has received exactly the lines the
\* device sent in reply to its own command.
C17_CallerGetsOwnReply ==
  (\A d \in CmdIds : ~timedOut[d]) =>
    \A c \in CmdIds :
      outcome[c].state = "fulfilled" => lines[c] = ReplyLines(c)

\* C18: a command whose reply is a data line followed by OK has declared two
\* response lines, and the trailing OK of a reply is delivered to a handler
\* of the command it answers.
C18_DataAckDeclaresTwoLines ==
  /\ \A c \in 1..issued :
       Len(DeviceReply(cmd[c])) = 2 => numResponseLines[c] = 2
  /\ \A k \in 1..Len(lineLog) :
       lineLog[k].line.idx = 2 =>
         /\ lineLog[k].handler # 0
         /\ registered[lineLog[k].handler].cmd = lineLog[k].line.cmd

\* C12: when the decoder of an operation has rejected the response of its
\* command, the command is no longer in the pending queue, and the command
\* now at the head of the pending queue, if any, was called later and has
\* been handed to print.
C12_ProtocolErrorLeavesQueueFree ==
  \A c \in CmdIds :
    opResult[c].state = "rejected" =>
      /\ c \notin Range(pending)
      /\ pending # <<>> =>
           /\ Head(pending) > c
           /\ Head(pending) \in Range(printed)
           /\ chain[Head(pending)] # "queued"

\* The decoder of an operation rejected its response while a later command
\* was pending; that command has been written.
C12_Witness ==
  \E c \in CmdIds :
    /\ opResult[c].state = "rejected"
    /\ pending # <<>>
    /\ Head(pending) = c + 1
    /\ c + 1 \in Range(writes)

\* The operations whose device reply is a single acknowledgment line.
BareAckOps == ReceivedUnexpectedOps \cup UnexpectedOps \cup UncheckedOps

\* C19: a bare-acknowledgment operation succeeds only if its response is
\* exactly OK, and fails with an error naming the response otherwise.
C19_BareAckRequiresOk ==
  (probe.op \in BareAckOps /\ probe.result.state # "none") =>
    /\ probe.result.state = "fulfilled" => probe.lines[1] = OK
    /\ probe.lines[1] # OK =>
         /\ probe.result.state = "rejected"
         /\ probe.result.response = probe.response

\* C20: a data + acknowledgment operation fails with a protocol error naming
\* the response whenever the second collected line is not exactly OK, and
\* returns a value only when it is OK.
C20_DataAckRequiresOk ==
  (probe.op \in DataAckOps /\ probe.result.state # "none") =>
    /\ probe.lines[2] # OK =>
         /\ probe.result.state = "rejected"
         /\ probe.result.text = "Unexpected response: "
         /\ probe.result.response = probe.response
    /\ probe.result.state = "fulfilled" => probe.lines[2] = OK

\* queryLayer, which splits without looking for the line break first, has
\* rejected a response whose second line is 'OK ' (not exactly OK).
C20_Witness ==
  /\ probe.op = "queryLayer"
  /\ probe.lines = <<<<"1">>, <<"O", "K", " ">>>>
  /\ probe.result.state = "rejected"

\* C21: every command that has been executed was passed to print exactly
\* once, nothing else was passed to print, and the string passed is the
\* command string of the call followed by one carriage return.
C21_OnePrintPerCommand ==
  /\ Len(printLog) = Len(printed)
  /\ \A i \in 1..Len(printed) :
       /\ printLog[i] = cmd[printed[i]] \o "\r"
       /\ cmd[printed[i]] \in {"CS", "QB", "V", "MW,1337,123"}
       /\ \A j \in 1..Len(printed) : printed[i] = printed[j] => i = j
  /\ \A c \in CmdIds :
       chain[c] \notin {"none", "queued"} <=> c \in Range(printed)

\* Three commands have been printed, memoryWrite(1337, 123) as the second,
\* after its predecessor's response.
C21_Witness ==
  /\ Len(printLog) = 3
  /\ printLog[2] = "MW,1337,123\r"

\* The last notification of the 'line' listener.
LastLine(log) == log[Len(log)]

\* C29: a line the device sent in reply to a command, delivered while the
\* promise of that command's print is resolved but its reaction has not run
\* yet, is appended to the response of that command unless the command has
\* timed out.
C29_LinesDuringPrintKept ==
  [][(Len(lineLog') > Len(lineLog)
        /\ chain[LastLine(lineLog').line.cmd] = "printResolved"
        /\ ~timedOut[LastLine(lineLog').line.cmd])
       => LastLine(lineLog').appendedTo = LastLine(lineLog').line.cmd]_vars

\* C30: the response of a command is never both fulfilled and timed out.
\* Once it is fulfilled its timer is cancelled, it stays fulfilled and no
\* timeout fires for it; once it has timed out it stays rejected and the
\* lines passed to its handlers are not added to its lines.
C30_OneResponseOutcome ==
  /\ [](\A c \in CmdIds :
          /\ ~(responsePromise[c] = "fulfilled" /\ timedOut[c])
          /\ responsePromise[c] = "fulfilled" => ~timeoutId[c]
          /\ timedOut[c] => responsePromise[c] = "rejected" /\ ~timeoutId[c])
  /\ [][\A c \in CmdIds :
          /\ responsePromise[c] = "fulfilled" =>
               responsePromise'[c] = "fulfilled" /\ ~timedOut'[c]
          /\ timedOut[c] =>
               /\ timedOut'[c]
               /\ lines'[c] = lines[c]
               /\ responsePromise'[c] = "rejected"]_vars

\* A line was passed to a handler of a command that had timed out with one
\* of its two lines collected, and was not added to that command's lines.
C30_Witness ==
  \E c \in CmdIds :
    /\ timedOut[c]
    /\ Len(lines[c]) = 1
    /\ \E k \in 1..Len(lineLog) :
         /\ lineLog[k].handler # 0
         /\ registered[lineLog[k].handler].cmd = c
         /\ lineLog[k].appendedTo = 0

\* Bit k of byte value b.
Bit(b, k) == (b \div (2 ^ k)) % 2 = 1

\* C22: for every byte value sent as two hexadecimal digits, queryGeneral
\* returns pinRB5 = bit 7, pinRB2 = bit 6, buttonPrg = bit 5, penDown =
\* bit 4, commandExecuting = bit 3, motor1Moving = bit 2, motor2Moving =
\* bit 1 and fifoEmpty = not bit 0.
C22_GeneralStatusBits ==
  (probe.op = "queryGeneral" /\ probe.result.state # "none") =>
    \A b \in Bytes :
      probe.lines = <<HexByte(b)>> =>
        probe.result =
          [state |-> "fulfilled",
           value |-> [pinRB5 |-> Bit(b, 7), pinRB2 |-> Bit(b, 6),
                      buttonPrg |-> Bit(b, 5), penDown |-> Bit(b, 4),
                      commandExecuting |-> Bit(b, 3), motor1Moving |-> Bit(b, 2),
                      motor2Moving |-> Bit(b, 1), fifoEmpty |-> ~Bit(b, 0)]]

\* The status 3E was decoded: pinRB5 and pinRB2 false, the other six true.
C22_Witness ==
  /\ probe.op = "queryGeneral"
  /\ probe.lines = << <<"3", "E">> >>
  /\ probe.result.state = "fulfilled"
  /\ probe.result.value =
       [pinRB5 |-> FALSE, pinRB2 |-> FALSE, buttonPrg |-> TRUE, penDown |-> TRUE,
        commandExecuting |-> TRUE, motor1Moving |-> TRUE, motor2Moving |-> TRUE,
        fifoEmpty |-> TRUE]

\* C23: queryMotors rejects every response that does not start with 'QM,'
\* with an error naming it, and decodes 'QM,a,b,c,d' to executingMotion =
\* (a > 0), motorMoving = [b = 1, c = 1], fifoEmpty = (d = 0).
C23_MotorsTagAndFields ==
  (probe.op = "queryMotors" /\ probe.result.state # "none") =>
    /\ (Len(probe.lines[1]) < 3 \/ SubSeq(probe.lines[1], 1, 3) # <<"Q", "M", ",">>)
         => probe.result = [state |-> "rejected", text |-> "Unexpected response: ",
                            response |-> probe.response]
    /\ \A a, b, c, d \in FlagValues :
         probe.lines = <<MotorsLine(a, b, c, d)>> =>
           probe.result =
             [state |-> "fulfilled",
              value |-> [executingMotion |-> a > 0,
                         motorMoving |-> <<b = 1, c = 1>>,
                         fifoEmpty |-> d = 0]]

\* 'QM,1,1,1,1' was decoded: executing, both motors moving, FIFO not empty.
C23_Witness ==
  /\ probe.op = "queryMotors"
  /\ probe.lines = << <<"Q", "M", ",", "1", ",", "1", ",", "1", ",", "1">> >>
  /\ probe.result.state = "fulfilled"
  /\ probe.result.value =
       [executingMotion |-> TRUE, motorMoving |-> <<TRUE, TRUE>>, fifoEmpty |-> FALSE]

\* C25: for the line the device sends for readings r, analogValueGet returns
\* the mapping with one entry per channel of r, keyed by the channel number
\* and holding its reading, and no other entry.
C25_AnalogReadings ==
  (probe.op = "analogValueGet" /\ probe.result.state # "none") =>
    \A r \in AnalogReadings :
      probe.lines = <<AnalogLine(r)>> =>
        /\ probe.result.state = "fulfilled"
        /\ DOMAIN probe.result.value = {Decimal(ch) : ch \in DOMAIN r}
        /\ \A ch \in DOMAIN r : probe.result.value[Decimal(ch)] = [n |-> r[ch]]

\* 'A,00:0713,02:0241,05:0089,09:1004' was decoded to {0:713, 2:241, 5:89,
\* 9:1004}.
C25_Witness ==
  /\ probe.op = "analogValueGet"
  /\ probe.lines = << <<"A", ",", "0", "0", ":", "0", "7", "1", "3", ",",
                        "0", "2", ":", "0", "2", "4", "1", ",",
                        "0", "5", ":", "0", "0", "8", "9", ",",
                        "0", "9", ":", "1", "0", "0", "4">> >>
  /\ probe.result.state = "fulfilled"
  /\ DOMAIN probe.result.value = {<<"0">>, <<"2">>, <<"5">>, <<"9">>}
  /\ probe.result.value[<<"0">>] = [n |-> 713]
  /\ probe.result.value[<<"2">>] = [n |-> 241]
  /\ probe.result.value[<<"5">>] = [n |-> 89]
  /\ probe.result.value[<<"9">>] = [n |-> 1004]

\* The step-mode constant documented for microstep value m.
StepMode(m) ==
  CASE m = 0 -> MOTOR_DISABLE
    [] m = 1 -> MOTOR_STEP_DIV1
    [] m = 2 -> MOTOR_STEP_DIV2
    [] m = 4 -> MOTOR_STEP_DIV4
    [] m = 8 -> MOTOR_STEP_DIV8
    [] m = 16 -> MOTOR_STEP_DIV16

\* C26: for the reply 'm1,m2', 'OK', queryMotorConfig returns the step-mode
\* constants of m1 and m2 when both are among 0, 1, 2, 4, 8, 16, and
\* rejects with an error naming the response otherwise.
C26_MotorConfigModes ==
  (probe.op = "queryMotorConfig" /\ probe.result.state # "none") =>
    \A m1, m2 \in ModeValues :
      probe.lines = <<ModeLine(m1, m2), OK>> =>
        IF m1 \in {0, 1, 2, 4, 8, 16} /\ m2 \in {0, 1, 2, 4, 8, 16}
        THEN probe.result = [state |-> "fulfilled",
                             value |-> <<StepMode(m1), StepMode(m2)>>]
        ELSE probe.result = [state |-> "rejected", text |-> "Unexpected response: ",
                             response |-> probe.response]

\* The reply '4,16', 'OK' was decoded to [MOTOR_STEP_DIV4, MOTOR_STEP_DIV16].
C26_Witness ==
  /\ probe.op = "queryMotorConfig"
  /\ probe.lines = << <<"4", ",", "1", "6">>, OK>>
  /\ probe.result.state = "fulfilled"
  /\ probe.result.value = <<MOTOR_STEP_DIV4, MOTOR_STEP_DIV16>>

\* Twice the number v (an integer or an integer plus one half).
Twice(v) == 2 * v.n + (IF v.kind = "half" THEN 1 ELSE 0)

\* v is a number between lo and hi, ends included.
Between(v, lo, hi) ==
  v.kind \in {"int", "half"} /\ 2 * lo <= Twice(v) /\ Twice(v) <= 2 * hi

\* v is an integer in 0..255.
IsByte(v) == v.kind = "int" /\ v.n \in 0..255

C24_PenStateRoundTrip ==
  probe # NoProbe /\ probe.op = "setPenState"
    /\ probe.result.state \in {"written", "queried"} =>
    /\ Split(probe.result.cmd, COMMA)[2] =
         (IF probe.args[1] THEN <<"0">> ELSE <<"1">>)
    /\ probe.result.state = "queried" =>
         probe.result.pen = Fulfilled(probe.args[1])

\* The pen was raised with a duration and queryPen has answered false.
C24_Witness ==
  /\ probe # NoProbe
  /\ probe.op = "setPenState"
  /\ probe.args = <<FALSE, JsInt(1000), JsUndefined>>
  /\ probe.result.state = "queried"
  /\ probe.result.pen = Fulfilled(FALSE)

\* C31: once a command has timed out, none of its response handlers remains
\* in the pending-handler queue.
C31_TimedOutHandlersDestroyed ==
  \A c \in CmdIds :
    timedOut[c] => HandlerSlots(responseHandlers, c) = {}

\* C32: when the pending command queue is empty the pending-handler queue is
\* empty too, and a line arriving then is logged as unsolicited without
\* reaching any handler.
C32_NoHandlersWhenIdle ==
  /\ [](pending = <<>> => responseHandlers = <<>>)
  /\ [][pending = <<>> /\ lineLog' # lineLog =>
          /\ lineLog'[Len(lineLog')].handler = 0
          /\ UNCHANGED proto]_vars

\* Every command issued is done, and the last line that arrived found no
\* handler.
C32_Witness ==
  /\ issued = MaxCmds
  /\ pending = <<>>
  /\ \A c \in CmdIds : outcome[c].state = "fulfilled"
  /\ lineLog # <<>>
  /\ lineLog[Len(lineLog)].handler = 0

\* C33: a command called while nothing is pending is handed to print in that
\* call; one called while others are pending is not printed by its call, is
\* printed only when every earlier command has left the pending queue, and
\* is printed by the step in which its predecessor completes.
C33_ImmediateOrAfterPredecessor ==
  /\ [](\A c \in Range(printed) : \A d \in Range(pending) : c <= d)
  /\ [][/\ issued' # issued =>
             printed' = (IF pending = <<>> THEN Append(printed, issued')
                         ELSE printed)
        /\ issued' = issued /\ printed' # printed =>
             /\ Len(pending) > 1
             /\ pending' = Tail(pending)
             /\ printed' = Append(printed, pending[2])
             /\ pending[2] = pending[1] + 1
             /\ outcome[pending[1]].state = "pending"
             /\ outcome'[pending[1]].state = "fulfilled"
        /\ Len(pending) > 1 /\ pending' = Tail(pending) =>
             /\ printed' = Append(printed, pending[2])
             /\ writes' = (IF connected THEN Append(writes, pending[2])
                           ELSE writes)]_vars

\* The second command was called while the first was pending and has been
\* printed by the completion of the first.
C33_Witness ==
  /\ Len(printed) = 2
  /\ printed[2] = 2
  /\ outcome[1].state = "fulfilled"
  /\ outcome[2].state = "pending"
  /\ pending # <<>>
  /\ Head(pending) = 2
  /\ issued = 3

\* C34: enterBootloader and reboot call the transport's disconnect at most
\* once, exactly once when they have completed, and only after their command
\* has been written and its response line received: never while the command
\* is still queued or in flight.
C34_DisconnectAfterResponse ==
  /\ \A i, j \in 1..Len(disconnects) :
       disconnects[i] = disconnects[j] => i = j
  /\ \A c \in CmdIds :
       /\ opResult[c].state = "fulfilled" => c \in Range(disconnects)
       /\ c \in Range(disconnects) =>
            /\ c \in Range(writes)
            /\ Len(lines[c]) = numResponseLines[c]
            /\ responsePromise[c] = "fulfilled"
            /\ c \notin Range(pending)
            /\ chain[c] = "done"

\* reboot() has been answered and has disconnected the transport.
C34_Witness ==
  \E c \in CmdIds :
    /\ cmd[c] = "RB"
    /\ c \in Range(disconnects)
    /\ ~connected
    /\ opResult[c].state = "fulfilled"

\* C35: when the board sends no line in reply to RB, reboot() still
\* disconnects the transport and its promise is fulfilled.
C35_RebootWithoutReply ==
  \A c \in CmdIds :
    (cmd[c] = "RB" /\ ~rebootAnswers /\ c \in Range(writes))
      ~> (c \in Range(disconnects) /\ opResult[c].state = "fulfilled")

\* The number v lies between the integers lo and hi, ends included.
Within(v, lo, hi) ==
  \/ v.kind = "int" /\ lo <= v.n /\ v.n <= hi
  \/ v.kind = "half" /\ lo <= v.n /\ v.n < hi

\* C36: lowLevelMoveTimeLimited throws for an interval count outside
\* 0..2^31-1, for a step rate outside -(2^31-1)..2^31-1 and for an
\* acceleration outside -2^31..2^31-1, and goes on to its command when every
\* parameter is in its range, negative rates included.
C36_TimeLimitedMoveDomains ==
  probe # NoProbe /\ probe.op = "lowLevelMoveTimeLimited"
    /\ probe.result.state \in {"thrown", "written"} =>
    LET a == probe.args
        intervalsOk == Within(a[1], 0, Int31Max)
        ratesOk == \A i \in {2, 5} : Within(a[i], 0 - Int31Max, Int31Max)
        accelsOk == \A i \in {3, 6} : Within(a[i], Int31Min, Int31Max)
    IN (probe.result.state = "written") <=> (intervalsOk /\ ratesOk /\ accelsOk)

\* C37: stepperMove and stepperMoveMixedAxis go on to their command exactly
\* when the duration lies in 1..2^24-1 and each of the two step counts lies
\* in -(2^24-1)..2^24-1.
C37_StepperMoveDomains ==
  probe # NoProbe /\ probe.op \in {"stepperMove", "stepperMoveMixedAxis"}
    /\ probe.result.state \in {"thrown", "written"} =>
    LET a == probe.args
        durationOk == Within(a[1], 1, 2 ^ 24 - 1)
        stepsOk == \A i \in {2, 3} : Within(a[i], 1 - 2 ^ 24, 2 ^ 24 - 1)
    IN (probe.result.state = "written") <=> (durationOk /\ stepsOk)

\* C38: pulseConfigure throws and writes nothing when any of its eight
\* durations and periods lies outside 0..65535.
C38_PulseConfigureDomains ==
  probe # NoProbe /\ probe.op = "pulseConfigure"
    /\ probe.result.state \in {"thrown", "written"} =>
    ((\E i \in 1..8 : ~Within(probe.args[i], 0, 65535)) =>
       probe.result.state = "thrown")

\* The last field of a command string.
LastField(str) == LET f == Split(str, COMMA) IN f[Len(f)]

\* C39: the last field of the command lowLevelMove and
\* lowLevelMoveTimeLimited write is 1 if m1Clear plus 2 if m2Clear.
C39_ClearFlagsEncoded ==
  probe # NoProbe /\ probe.result.state = "written" =>
    /\ probe.op = "lowLevelMove" =>
         LastField(probe.result.cmd) =
           Decimal((IF probe.args[4] THEN 1 ELSE 0)
                   + (IF probe.args[8] THEN 2 ELSE 0))
    /\ probe.op = "lowLevelMoveTimeLimited" =>
         LastField(probe.result.cmd) =
           Decimal((IF probe.args[4] THEN 1 ELSE 0)
                   + (IF probe.args[7] THEN 2 ELSE 0))

\* lowLevelMove with m1Clear false and m2Clear true has written 2 as its
\* last field.
C39_Witness ==
  /\ probe # NoProbe
  /\ probe.op = "lowLevelMove"
  /\ probe.args = <<JsInt(3865471), JsInt(60), JsInt(1732), FALSE,
                    JsInt(0), JsInt(0), JsInt(0), TRUE>>
  /\ probe.result.state = "written"
  /\ LastField(probe.result.cmd) = <<"2">>

============================================================================
